---- MODULE Spec2Model ----
(***************************************************************************)
(* Model of the HITL decision coordinator (agents/hitl_manager.py) and of  *)
(* the agent base class that requests decisions from it                    *)
(* (agents/hitl_enhanced_agent.py).                                        *)
(*                                                                         *)
(* A Python dict is modelled as the sequence of its values in insertion    *)
(* order; the key of a value is its decision_id.  An Optional value is     *)
(* None (the empty sequence) or Some(x) (a one-element sequence).          *)
(* datetime.now() is the logical clock `now`, advanced by Tick.            *)
(***************************************************************************)
EXTENDS Integers, Sequences, FiniteSets, TLC

\* ---------------------------------------------------------------- bounds
MaxDecisions == 1      \* number of uuid4() values drawn in one behaviour
MaxTime == 1           \* last value of the clock
MaxTimeout == 1        \* largest timeout_seconds passed by a caller
HistoryCap == 2        \* the cap of _add_to_history (1000), scaled down
MaxRuns == 2           \* invocations of optimize_portfolio per process
MaxPasses == 2         \* runs of reason_about_strategy in one invocation

\* ---------------------------------------------------------------- inputs
AgentInstances == {"hitl_portfolio_optimizer"}
AgentIds == AgentInstances \cup {"external"}
DecisionTypes == {"allocation"}
DecisionData == { [ budget |-> 150000 ] }
Descriptions == {"review"}
UserIds == {"default_user"}
TimeoutValues == 1..MaxTimeout
Callbacks == {"on_resolved"}

None == << >>
Some(x) == << x >>

\* class HITLStatus
PENDING == "pending"
APPROVED == "approved"
REJECTED == "rejected"
TIMEOUT == "timeout"
BYPASSED == "bypassed"
HITLStatus == {PENDING, APPROVED, REJECTED, TIMEOUT, BYPASSED}

VARIABLES
    pending_decisions,      \* HITLManager.pending_decisions
    resolved_decisions,     \* HITLManager.resolved_decisions
    decision_history,       \* HITLManager.decision_history
    global_autonomous_mode, \* HITLManager.global_autonomous_mode
    agent_hitl_overrides,   \* HITLManager.agent_hitl_overrides
    decision_file,          \* contents of data/hitl/hitl_decisions.json
    history_file,           \* contents of data/hitl/hitl_history.json
    timeout_tasks,          \* the _handle_timeout tasks that are asleep
    uuid,                   \* number of uuid4() values drawn so far
    now,                    \* datetime.now()
    hitl_enabled,           \* HITLEnhancedAgent.hitl_enabled, per instance
    autonomous_mode,        \* HITLEnhancedAgent.autonomous_mode, per instance
    callback_arg,           \* callback argument of each request, by decision
    callback_calls,         \* invocations of completion callbacks, in order
    last_call,              \* the last call made and what it returned
    workflow,               \* the invocation of the agent's graph in flight
    lists,                  \* the reasoning_trace list objects, by identity
    parked,                 \* an invocation whose task is not the running one
    audit_log_file,         \* data/portfolio_optimizer_audit.json
    csv_log_file            \* data/portfolio_optimizer_decisions.csv

vars == << pending_decisions, resolved_decisions, decision_history,
           global_autonomous_mode, agent_hitl_overrides, decision_file,
           history_file, timeout_tasks, uuid, now, hitl_enabled,
           autonomous_mode, callback_arg, callback_calls, last_call,
           workflow, lists, parked, audit_log_file, csv_log_file >>

coordinator == << pending_decisions, resolved_decisions, decision_history >>
policy == << global_autonomous_mode, agent_hitl_overrides >>
store == << decision_file, history_file >>
agents == << hitl_enabled, autonomous_mode >>
audit == << audit_log_file, csv_log_file >>
graph == << workflow, lists, parked, audit >>

\* ------------------------------------------------------------ dict helpers
RECURSIVE SelectSeqIdx(_, _, _)
SelectSeqIdx(s, id, i) ==
    IF i > Len(s) THEN 0
    ELSE IF s[i].decision_id = id THEN i ELSE SelectSeqIdx(s, id, i + 1)

\* `key in d`
DictHas(d, id) == \E i \in 1..Len(d) : d[i].decision_id = id
\* d[key]
DictGet(d, id) == d[SelectSeqIdx(d, id, 1)]
\* d[key] = value
DictSet(d, v) ==
    IF DictHas(d, v.decision_id)
    THEN [d EXCEPT ![SelectSeqIdx(d, v.decision_id, 1)] = v]
    ELSE Append(d, v)
\* del d[key]
DictDel(d, id) == SelectSeq(d, LAMBDA v : v.decision_id # id)
DictKeys(d) == { d[i].decision_id : i \in 1..Len(d) }

\* every decision the coordinator holds
AllDecisions == pending_decisions \o resolved_decisions

\* ------------------------------------------------------------ HITLDecision
isoformat(t) == [iso |-> t]

HITLDecision(decision_id, agent_id, decision_type, decision_data, description, status, user_id, timeout_seconds) ==
    [ decision_id |-> decision_id,
      agent_id |-> agent_id,
      decision_type |-> decision_type,
      decision_data |-> decision_data,
      description |-> description,
      created_at |-> now,
      status |-> status,
      user_id |-> user_id,
      timeout_seconds |-> timeout_seconds,
      callback |-> None,
      resolved_at |-> None,
      resolution_reason |-> None,
      user_comments |-> None ]

to_dict(d) ==
    [ decision_id |-> d.decision_id,
      agent_id |-> d.agent_id,
      decision_type |-> d.decision_type,
      decision_data |-> d.decision_data,
      description |-> d.description,
      created_at |-> isoformat(d.created_at),
      status |-> d.status,
      user_id |-> d.user_id,
      timeout_seconds |-> d.timeout_seconds,
      resolved_at |-> IF d.resolved_at # None
                      THEN Some(isoformat(d.resolved_at[1])) ELSE None,
      resolution_reason |-> d.resolution_reason,
      user_comments |-> d.user_comments ]

fromisoformat(s) == s.iso

from_dict(data) ==
    [ decision_id |-> data.decision_id,
      agent_id |-> data.agent_id,
      decision_type |-> data.decision_type,
      decision_data |-> data.decision_data,
      description |-> data.description,
      created_at |-> fromisoformat(data.created_at),
      status |-> data.status,
      user_id |-> data.user_id,
      timeout_seconds |-> data.timeout_seconds,
      callback |-> None,
      resolved_at |-> IF data.resolved_at # None
                      THEN Some(fromisoformat(data.resolved_at[1])) ELSE None,
      resolution_reason |-> data.resolution_reason,
      user_comments |-> data.user_comments ]

\* json.dump of one dict made by to_dict: the text written holds the items
\* that a list the dict refers to has at that moment.  A payload built by a
\* graph refers to the list state['reasoning_trace']; any other payload
\* holds no reference.
json_dump(data) ==
    IF "reasoning_trace" \in DOMAIN data.decision_data
       /\ "ref" \in DOMAIN data.decision_data.reasoning_trace
    THEN [ data EXCEPT !.decision_data.reasoning_trace =
                           [ items |-> lists[@.ref] ] ]
    ELSE data

\* ------------------------------------------------------------- HITLManager
\* _add_to_history: the new value of decision_history
_add_to_history_uncapped(history, decision) ==
    LET history_entry == to_dict(decision) @@ ("timestamp" :> isoformat(now))
    IN  << history_entry >> \o history

_add_to_history(history, decision) ==
    LET history_entry == to_dict(decision) @@ ("timestamp" :> isoformat(now))
        inserted == << history_entry >> \o history
    IN  IF Len(inserted) > HistoryCap
        THEN SubSeq(inserted, 1, HistoryCap)
        ELSE inserted

\* What open(file, 'w') and json.dump do in one _save_data call: both files
\* are written, or open() raises for one of them and the except clause ends
\* the call (the file that could not be opened keeps its contents).
IoOutcomes == {"ok", "decision_file_error", "history_file_error"}

\* _save_data without the write of the history file
_save_data_no_history(pending, resolved, history, io) ==
    LET all_decisions == pending \o resolved
    IN  /\ decision_file' =
              IF io = "decision_file_error"
              THEN decision_file
              ELSE Some([ i \in 1..Len(all_decisions) |->
                          json_dump(to_dict(all_decisions[i])) ])
        /\ history_file' = history_file

\* _save_data, given the state to be saved
_save_data(pending, resolved, history, io) ==
    LET all_decisions == pending \o resolved
    IN  /\ decision_file' =
              IF io = "decision_file_error"
              THEN decision_file
              ELSE Some([ i \in 1..Len(all_decisions) |->
                          json_dump(to_dict(all_decisions[i])) ])
        /\ history_file' =
              IF io = "ok"
              THEN Some([ i \in 1..Len(history) |-> json_dump(history[i]) ])
              ELSE history_file

\* is_hitl_required with `.get(agent_id, True)`
is_hitl_required_default_true(agent_id) ==
    IF global_autonomous_mode
    THEN FALSE
    ELSE IF agent_id \in DOMAIN agent_hitl_overrides
         THEN agent_hitl_overrides[agent_id]
         ELSE TRUE

is_hitl_required(agent_id) ==
    IF global_autonomous_mode
    THEN FALSE
    ELSE IF agent_id \in DOMAIN agent_hitl_overrides
         THEN agent_hitl_overrides[agent_id]
         ELSE FALSE

get_decision(decision_id) ==
    IF DictHas(pending_decisions, decision_id)
    THEN Some(to_dict(DictGet(pending_decisions, decision_id)))
    ELSE IF DictHas(resolved_decisions, decision_id)
         THEN Some(to_dict(DictGet(resolved_decisions, decision_id)))
         ELSE None

\* `if agent_id:` is false for None and for the empty string
Truthy(agent_id) == agent_id # None /\ agent_id[1] # ""

\* s[:limit]
Slice(s, limit) ==
    IF limit >= 0
    THEN SubSeq(s, 1, IF limit < Len(s) THEN limit ELSE Len(s))
    ELSE SubSeq(s, 1, IF Len(s) + limit > 0 THEN Len(s) + limit ELSE 0)

get_pending_decisions(agent_id) ==
    LET decisions ==
            IF Truthy(agent_id)
            THEN SelectSeq(pending_decisions,
                           LAMBDA d : d.agent_id = agent_id[1])
            ELSE pending_decisions
    IN  [ i \in 1..Len(decisions) |-> to_dict(decisions[i]) ]

get_decision_history_unfiltered(agent_id, limit) ==
    Slice(decision_history, limit)

get_decision_history(agent_id, limit) ==
    LET history ==
            IF Truthy(agent_id)
            THEN SelectSeq(decision_history,
                           LAMBDA h : h.agent_id = agent_id[1])
            ELSE decision_history
    IN  Slice(history, limit)

\* _load_data: the indices and the history a coordinator constructed over
\* the two files starts with.  Both files were written by json.dump, so
\* json.load does not raise.
RECURSIVE LoadDecisions(_, _, _)
LoadDecisions(decisions_data, i, loaded) ==
    IF i > Len(decisions_data)
    THEN loaded
    ELSE LET decision == from_dict(decisions_data[i])
         IN  LoadDecisions(decisions_data, i + 1,
                 IF decision.status = PENDING
                 THEN [ loaded EXCEPT !.pending_decisions =
                                          DictSet(@, decision) ]
                 ELSE [ loaded EXCEPT !.resolved_decisions =
                                          DictSet(@, decision) ])

_load_data(decision_file_data, history_file_data) ==
    LET empty == [ pending_decisions |-> << >>,
                   resolved_decisions |-> << >> ]
        loaded == IF decision_file_data # None
                  THEN LoadDecisions(decision_file_data[1], 1, empty)
                  ELSE empty
    IN  [ pending_decisions |-> loaded.pending_decisions,
          resolved_decisions |-> loaded.resolved_decisions,
          decision_history |-> IF history_file_data # None
                               THEN history_file_data[1]
                               ELSE << >> ]

\* No invocation of the graph is in flight
NoInvocation == [ pc |-> "idle" ]

Init ==
    /\ pending_decisions = << >>
    /\ resolved_decisions = << >>
    /\ decision_history = << >>
    /\ global_autonomous_mode = FALSE
    /\ agent_hitl_overrides = [ a \in AgentInstances |-> FALSE ]
    /\ decision_file = None
    /\ history_file = None
    /\ timeout_tasks = {}
    /\ uuid = 0
    /\ now = 0
    /\ hitl_enabled = [ a \in AgentInstances |-> FALSE ]
    /\ autonomous_mode = [ a \in AgentInstances |-> TRUE ]
    /\ callback_arg = << >>
    /\ callback_calls = << >>
    /\ last_call = [ op |-> "init" ]
    /\ workflow = NoInvocation
    /\ lists = << >>
    /\ parked = NoInvocation
    /\ audit_log_file = << >>
    /\ csv_log_file = << >>

\* ------------------------------------------------------------- operations
set_global_autonomous_mode_resolving(enabled) ==
    /\ global_autonomous_mode' = enabled
    /\ last_call' = [ op |-> "set_global_autonomous_mode" ]
    /\ pending_decisions' = IF enabled THEN << >> ELSE pending_decisions
    /\ resolved_decisions' =
           IF enabled
           THEN resolved_decisions \o
                    [ i \in 1..Len(pending_decisions) |->
                        [ pending_decisions[i] EXCEPT
                            !.status = BYPASSED,
                            !.resolved_at = Some(now) ] ]
           ELSE resolved_decisions
    /\ UNCHANGED << decision_history, agent_hitl_overrides, store,
                    timeout_tasks, uuid, now, agents, callback_arg,
                    callback_calls, graph >>

set_global_autonomous_mode(enabled) ==
    /\ global_autonomous_mode' = enabled
    /\ last_call' = [ op |-> "set_global_autonomous_mode" ]
    /\ UNCHANGED << coordinator, agent_hitl_overrides, store, timeout_tasks,
                    uuid, now, agents, callback_arg, callback_calls, graph >>

\* d[key] = value on the overrides map
OverrideSet(overrides, agent_id, enabled) ==
    [ a \in DOMAIN overrides \cup {agent_id} |->
        IF a = agent_id THEN enabled ELSE overrides[a] ]

set_agent_hitl_override(agent_id, override_enabled) ==
    /\ agent_hitl_overrides' =
           OverrideSet(agent_hitl_overrides, agent_id, override_enabled)
    /\ last_call' = [ op |-> "set_agent_hitl_override" ]
    /\ UNCHANGED << coordinator, global_autonomous_mode, store, timeout_tasks,
                    uuid, now, agents, callback_arg, callback_calls, graph >>

\* The state change of create_decision; `callback` is what the caller of
\* request_hitl_approval passed (None for a direct call) and `op` names the
\* entry point.
create_decision_body(op, agent_id, decision_type, decision_data, description, user_id, timeout_seconds, callback, io) ==
    LET decision_id == uuid + 1
    IN  /\ uuid < MaxDecisions
        /\ uuid' = decision_id
        /\ callback_arg' = Append(callback_arg, callback)
        /\ IF ~ is_hitl_required(agent_id)
           THEN LET created == HITLDecision(decision_id, agent_id,
                                   decision_type, decision_data, description,
                                   BYPASSED, user_id, timeout_seconds)
                    decision == [ created EXCEPT
                                    !.resolved_at = Some(now),
                                    !.resolution_reason =
                                        Some("Autonomous mode enabled") ]
                    resolved == DictSet(resolved_decisions, decision)
                    history == _add_to_history(decision_history, decision)
                IN  /\ resolved_decisions' = resolved
                    /\ decision_history' = history
                    /\ _save_data(pending_decisions, resolved, history, io)
                    /\ last_call' = [ op |-> op, decision_id |-> decision_id,
                                      result |-> decision.status, io |-> io ]
                    /\ UNCHANGED << pending_decisions, timeout_tasks >>
           ELSE LET decision == HITLDecision(decision_id, agent_id,
                                   decision_type, decision_data, description,
                                   PENDING, user_id, timeout_seconds)
                    pending == DictSet(pending_decisions, decision)
                IN  /\ now + timeout_seconds <= MaxTime
                    /\ pending_decisions' = pending
                    /\ _save_data(pending, resolved_decisions,
                                  decision_history, io)
                    /\ timeout_tasks' = timeout_tasks \cup
                           { [ decision_id |-> decision_id,
                               timeout_seconds |-> timeout_seconds,
                               wake |-> now + timeout_seconds ] }
                    /\ last_call' = [ op |-> op, decision_id |-> decision_id,
                                      result |-> decision.status, io |-> io ]
                    /\ UNCHANGED << resolved_decisions, decision_history >>
        /\ UNCHANGED << policy, now, agents, callback_calls >>

create_decision(agent_id, decision_type, decision_data, description, user_id, timeout_seconds, io) ==
    /\ create_decision_body("create_decision", agent_id, decision_type,
                            decision_data, description, user_id,
                            timeout_seconds, None, io)
    /\ UNCHANGED graph

\* The callback a resolved decision runs
ExecuteCallback(decision) ==
    callback_calls' =
        IF decision.callback # None
        THEN Append(callback_calls, [ callback |-> decision.callback[1],
                                      decision_id |-> decision.decision_id ])
        ELSE callback_calls

\* Resolve without `del self.pending_decisions[decision_id]`
Resolve_no_del(decision, io) ==
    LET resolved == DictSet(resolved_decisions, decision)
        pending == DictSet(pending_decisions, decision)
        history == _add_to_history(decision_history, decision)
    IN  /\ resolved_decisions' = resolved
        /\ pending_decisions' = pending
        /\ decision_history' = history
        /\ _save_data(pending, resolved, history, io)
        /\ ExecuteCallback(decision)

\* Resolve that changes the indices and the history only if both files were
\* written
Resolve_persist_first(decision, io) ==
    LET resolved == DictSet(resolved_decisions, decision)
        pending == DictDel(pending_decisions, decision.decision_id)
        history == _add_to_history(decision_history, decision)
    IN  /\ _save_data(pending, resolved, history, io)
        /\ IF io = "ok"
           THEN /\ resolved_decisions' = resolved
                /\ pending_decisions' = pending
                /\ decision_history' = history
                /\ ExecuteCallback(decision)
           ELSE UNCHANGED << coordinator, callback_calls >>

\* The move of a pending decision to the resolved index that _handle_timeout,
\* approve_decision and reject_decision share
Resolve(decision, io) ==
    LET resolved == DictSet(resolved_decisions, decision)
        pending == DictDel(pending_decisions, decision.decision_id)
        history == _add_to_history(decision_history, decision)
    IN  /\ resolved_decisions' = resolved
        /\ pending_decisions' = pending
        /\ decision_history' = history
        /\ _save_data(pending, resolved, history, io)
        /\ ExecuteCallback(decision)

\* _handle_timeout without the check that the decision is still pending
_handle_timeout_no_recheck(task, io) ==
    /\ task \in timeout_tasks
    /\ now >= task.wake
    /\ timeout_tasks' = timeout_tasks \ {task}
    /\ LET decision == [ DictGet(AllDecisions, task.decision_id) EXCEPT
                           !.status = TIMEOUT,
                           !.resolved_at = Some(now),
                           !.resolution_reason =
                               Some(<< "Timed out after",
                                       task.timeout_seconds >>) ]
       IN  /\ Resolve(decision, io)
           /\ last_call' = [ op |-> "_handle_timeout", result |-> TRUE, io |-> io ]
    /\ UNCHANGED << policy, uuid, now, agents, callback_arg, graph >>

\* _handle_timeout with the check inverted: a pending decision is left alone
_handle_timeout_inverted(task, io) ==
    /\ task \in timeout_tasks
    /\ now >= task.wake
    /\ timeout_tasks' = timeout_tasks \ {task}
    /\ last_call' = [ op |-> "_handle_timeout", result |-> FALSE, io |-> "ok" ]
    /\ UNCHANGED << coordinator, store, callback_calls >>
    /\ UNCHANGED << policy, uuid, now, agents, callback_arg, graph >>

\* The part of _handle_timeout that runs when asyncio.sleep returns
_handle_timeout(task, io) ==
    /\ task \in timeout_tasks
    /\ now >= task.wake
    /\ timeout_tasks' = timeout_tasks \ {task}
    /\ IF DictHas(pending_decisions, task.decision_id)
       THEN LET decision == [ DictGet(pending_decisions, task.decision_id)
                                EXCEPT
                                !.status = TIMEOUT,
                                !.resolved_at = Some(now),
                                !.resolution_reason =
                                    Some(<< "Timed out after",
                                            task.timeout_seconds >>) ]
            IN  /\ Resolve(decision, io)
                /\ last_call' = [ op |-> "_handle_timeout", result |-> TRUE, io |-> io ]
       ELSE /\ last_call' = [ op |-> "_handle_timeout", result |-> FALSE, io |-> "ok" ]
            /\ UNCHANGED << coordinator, store, callback_calls >>
    /\ UNCHANGED << policy, uuid, now, agents, callback_arg, graph >>

\* approve_decision that looks the id up in both indices
approve_decision_unguarded(decision_id, user_comments, io) ==
    /\ IF ~ DictHas(AllDecisions, decision_id)
       THEN /\ last_call' = [ op |-> "approve_decision", result |-> FALSE, io |-> "ok" ]
            /\ UNCHANGED << coordinator, store, callback_calls >>
       ELSE LET decision == [ DictGet(AllDecisions, decision_id) EXCEPT
                                !.status = APPROVED,
                                !.resolved_at = Some(now),
                                !.resolution_reason = Some("Approved by user"),
                                !.user_comments = user_comments ]
            IN  /\ Resolve(decision, io)
                /\ last_call' = [ op |-> "approve_decision", result |-> TRUE, io |-> io ]
    /\ UNCHANGED << policy, timeout_tasks, uuid, now, agents, callback_arg,
                    graph >>

\* approve_decision without the assignment to resolved_at
approve_decision_no_resolved_at(decision_id, user_comments, io) ==
    /\ IF ~ DictHas(pending_decisions, decision_id)
       THEN /\ last_call' = [ op |-> "approve_decision", result |-> FALSE, io |-> "ok" ]
            /\ UNCHANGED << coordinator, store, callback_calls >>
       ELSE LET decision == [ DictGet(pending_decisions, decision_id) EXCEPT
                                !.status = APPROVED,
                                !.resolution_reason = Some("Approved by user"),
                                !.user_comments = user_comments ]
            IN  /\ Resolve(decision, io)
                /\ last_call' = [ op |-> "approve_decision", result |-> TRUE, io |-> io ]
    /\ UNCHANGED << policy, timeout_tasks, uuid, now, agents, callback_arg,
                    graph >>

approve_decision(decision_id, user_comments, io) ==
    /\ IF ~ DictHas(pending_decisions, decision_id)
       THEN /\ last_call' = [ op |-> "approve_decision", result |-> FALSE, io |-> "ok" ]
            /\ UNCHANGED << coordinator, store, callback_calls >>
       ELSE LET decision == [ DictGet(pending_decisions, decision_id) EXCEPT
                                !.status = APPROVED,
                                !.resolved_at = Some(now),
                                !.resolution_reason = Some("Approved by user"),
                                !.user_comments = user_comments ]
            IN  /\ Resolve(decision, io)
                /\ last_call' = [ op |-> "approve_decision", result |-> TRUE, io |-> io ]
    /\ UNCHANGED << policy, timeout_tasks, uuid, now, agents, callback_arg,
                    graph >>

\* reject_decision that looks the id up in both indices
reject_decision_unguarded(decision_id, user_comments, io) ==
    /\ IF ~ DictHas(AllDecisions, decision_id)
       THEN /\ last_call' = [ op |-> "reject_decision", result |-> FALSE, io |-> "ok" ]
            /\ UNCHANGED << coordinator, store, callback_calls >>
       ELSE LET decision == [ DictGet(AllDecisions, decision_id) EXCEPT
                                !.status = REJECTED,
                                !.resolved_at = Some(now),
                                !.resolution_reason = Some("Rejected by user"),
                                !.user_comments = user_comments ]
            IN  /\ Resolve(decision, io)
                /\ last_call' = [ op |-> "reject_decision", result |-> TRUE, io |-> io ]
    /\ UNCHANGED << policy, timeout_tasks, uuid, now, agents, callback_arg,
                    graph >>

reject_decision(decision_id, user_comments, io) ==
    /\ IF ~ DictHas(pending_decisions, decision_id)
       THEN /\ last_call' = [ op |-> "reject_decision", result |-> FALSE, io |-> "ok" ]
            /\ UNCHANGED << coordinator, store, callback_calls >>
       ELSE LET decision == [ DictGet(pending_decisions, decision_id) EXCEPT
                                !.status = REJECTED,
                                !.resolved_at = Some(now),
                                !.resolution_reason = Some("Rejected by user"),
                                !.user_comments = user_comments ]
            IN  /\ Resolve(decision, io)
                /\ last_call' = [ op |-> "reject_decision", result |-> TRUE, io |-> io ]
    /\ UNCHANGED << policy, timeout_tasks, uuid, now, agents, callback_arg,
                    graph >>

\* --------------------------------------------------------- HITLEnhancedAgent
hitl_timeout_seconds == 1   \* the default (300 s) as one unit of the clock

\* Instances are named after their agent id; one more instance can be
\* constructed with the agent id of the module-level instance.
SecondInstances == { "hitl_portfolio_optimizer (second instance)" }
agent_id_of(a) ==
    IF a \in SecondInstances THEN "hitl_portfolio_optimizer" ELSE a

\* HITLEnhancedAgent.__init__
__init__(a) ==
    /\ a \notin DOMAIN hitl_enabled
    /\ hitl_enabled' = (a :> FALSE) @@ hitl_enabled
    /\ autonomous_mode' = (a :> TRUE) @@ autonomous_mode
    /\ agent_hitl_overrides' =
           OverrideSet(agent_hitl_overrides, agent_id_of(a), FALSE)
    /\ last_call' = [ op |-> "HITLEnhancedAgent.__init__" ]
    /\ UNCHANGED << coordinator, global_autonomous_mode, store, timeout_tasks,
                    uuid, now, callback_arg, callback_calls, graph >>

set_hitl_enabled(a, enabled) ==
    /\ hitl_enabled' = [ hitl_enabled EXCEPT ![a] = enabled ]
    /\ agent_hitl_overrides' =
           OverrideSet(agent_hitl_overrides, agent_id_of(a), enabled)
    /\ last_call' = [ op |-> "set_hitl_enabled" ]
    /\ UNCHANGED << coordinator, global_autonomous_mode, store, timeout_tasks,
                    uuid, now, autonomous_mode, callback_arg, callback_calls,
                    graph >>

set_autonomous_mode(a, enabled) ==
    /\ autonomous_mode' = [ autonomous_mode EXCEPT ![a] = enabled ]
    /\ last_call' = [ op |-> "set_autonomous_mode" ]
    /\ UNCHANGED << coordinator, policy, store, timeout_tasks, uuid, now,
                    hitl_enabled, callback_arg, callback_calls, graph >>

\* Both branches of request_hitl_approval make the same create_decision call,
\* and neither passes `callback` on.
request_hitl_approval(a, decision_type, decision_data, description, user_id, callback, io) ==
    IF ~ hitl_enabled[a] \/ autonomous_mode[a]
    THEN create_decision_body("request_hitl_approval", agent_id_of(a),
                              decision_type, decision_data, description,
                              user_id, hitl_timeout_seconds, callback, io)
    ELSE create_decision_body("request_hitl_approval", agent_id_of(a),
                              decision_type, decision_data, description,
                              user_id, hitl_timeout_seconds, callback, io)

\* -------------------------------------------------------------------- clock
Tick ==
    /\ now < MaxTime
    /\ now' = now + 1
    /\ UNCHANGED << coordinator, policy, store, timeout_tasks, uuid, agents,
                    callback_arg, callback_calls, last_call, graph >>

\* ------------------------------------------------------------ specification
UserComments == { Some("ok") }
DecisionIds == 1..MaxDecisions

SetGlobalAutonomousMode == \E enabled \in BOOLEAN :
    set_global_autonomous_mode(enabled)
SetAgentHitlOverride == \E agent_id \in AgentInstances, enabled \in BOOLEAN :
    set_agent_hitl_override(agent_id, enabled)
CreateDecision(ios) ==
    \E agent_id \in AgentIds, decision_type \in DecisionTypes,
       decision_data \in DecisionData, description \in Descriptions,
       user_id \in UserIds, timeout_seconds \in TimeoutValues, io \in ios :
        create_decision(agent_id, decision_type, decision_data, description,
                        user_id, timeout_seconds, io)
HandleTimeout(ios) == \E task \in timeout_tasks, io \in ios :
    _handle_timeout(task, io)
ApproveDecision(ios) ==
    \E decision_id \in DecisionIds, user_comments \in UserComments,
       io \in ios :
        approve_decision(decision_id, user_comments, io)
RejectDecision(ios) ==
    \E decision_id \in DecisionIds, user_comments \in UserComments,
       io \in ios :
        reject_decision(decision_id, user_comments, io)
SetHitlEnabled == \E a \in DOMAIN hitl_enabled, enabled \in BOOLEAN :
    set_hitl_enabled(a, enabled)
SetAutonomousMode == \E a \in DOMAIN hitl_enabled, enabled \in BOOLEAN :
    set_autonomous_mode(a, enabled)
RequestHitlApproval(ios) ==
    \E a \in DOMAIN hitl_enabled, decision_type \in DecisionTypes,
       decision_data \in DecisionData, description \in Descriptions,
       user_id \in UserIds, callback \in { None } \cup { Some(c) : c \in Callbacks },
       io \in ios :
        /\ request_hitl_approval(a, decision_type, decision_data,
                                 description, user_id, callback, io)
        /\ UNCHANGED graph

\* The coordinator with a store that never fails
Next ==
    \/ SetGlobalAutonomousMode
    \/ SetAgentHitlOverride
    \/ CreateDecision({"ok"})
    \/ HandleTimeout({"ok"})
    \/ ApproveDecision({"ok"})
    \/ RejectDecision({"ok"})
    \/ Tick

Spec == Init /\ [][Next]_vars

\* The coordinator with a store that can fail
NextIO ==
    \/ SetAgentHitlOverride
    \/ CreateDecision(IoOutcomes)
    \/ HandleTimeout(IoOutcomes)
    \/ ApproveDecision(IoOutcomes)
    \/ RejectDecision(IoOutcomes)
    \/ Tick

SpecIO == Init /\ [][NextIO]_vars

\* Agents that request decisions, with and without a completion callback
NextAgent ==
    \/ SetGlobalAutonomousMode
    \/ SetHitlEnabled
    \/ SetAutonomousMode
    \/ RequestHitlApproval({"ok"})
    \/ HandleTimeout({"ok"})
    \/ ApproveDecision({"ok"})
    \/ RejectDecision({"ok"})
    \/ Tick

SpecAgent == Init /\ [][NextAgent]_vars

\* The agents when further instances are constructed in the same process
Construct == \E a \in SecondInstances : __init__(a)

NextInstances ==
    \/ Construct
    \/ SetGlobalAutonomousMode
    \/ SetHitlEnabled
    \/ SetAutonomousMode
    \/ RequestHitlApproval({"ok"})
    \/ HandleTimeout({"ok"})
    \/ ApproveDecision({"ok"})
    \/ RejectDecision({"ok"})
    \/ Tick

SpecInstances == Init /\ [][NextInstances]_vars

\* The event loop keeps running: the clock advances and a task whose sleep is
\* over is resumed.
TimeoutOf(decision_id) == \E task \in timeout_tasks :
    /\ task.decision_id = decision_id
    /\ _handle_timeout(task, "ok")

FairSpec ==
    /\ Init
    /\ [][Next]_vars
    /\ WF_vars(Tick)
    /\ \A decision_id \in DecisionIds : WF_vars(TimeoutOf(decision_id))

\* ---------------------------------------------------------- process restart
\* A new process: `hitl_manager = HITLManager()` loads the two files, then the
\* module-level agent instance is constructed and registers its override.
\* Nothing re-creates the timeout tasks of the process that ended, and the
\* policy is not persisted.
Restart ==
    LET loaded == _load_data(decision_file, history_file)
    IN  /\ pending_decisions' = loaded.pending_decisions
        /\ resolved_decisions' = loaded.resolved_decisions
        /\ decision_history' = loaded.decision_history
        /\ global_autonomous_mode' = FALSE
        /\ agent_hitl_overrides' = [ a \in AgentInstances |-> FALSE ]
        /\ timeout_tasks' = {}
        /\ hitl_enabled' = [ a \in AgentInstances |-> FALSE ]
        /\ autonomous_mode' = [ a \in AgentInstances |-> TRUE ]
        /\ workflow' = NoInvocation
        /\ lists' = << >>
        /\ parked' = NoInvocation
        /\ UNCHANGED audit
        /\ last_call' = [ op |-> "__init__" ]
        /\ UNCHANGED << store, uuid, now, callback_arg, callback_calls >>

\* The process can stop inside _save_data after the `with` block that writes
\* the decision file and before the one that writes the history file: the
\* decision file is rewritten, the history file is not, and the call never
\* returns.  last_call.io records it; the only step left is a restart.
CrashPoints == {"crash_between_files"}
CrashOutcomes == {"ok"} \cup CrashPoints
Crashed == "io" \in DOMAIN last_call /\ last_call.io \in CrashPoints

NextCrash ==
    \/ ~ Crashed /\ SetAgentHitlOverride
    \/ ~ Crashed /\ CreateDecision(CrashOutcomes)
    \/ ~ Crashed /\ HandleTimeout(CrashOutcomes)
    \/ ~ Crashed /\ ApproveDecision(CrashOutcomes)
    \/ ~ Crashed /\ RejectDecision(CrashOutcomes)
    \/ Tick
    \/ Restart

SpecCrash == Init /\ [][NextCrash]_vars

\* A coordinator constructed over the store a previous process left: that
\* process approved `k` decisions, whose ids are written 1 - k .. 0, at time
\* 0.  The decision file holds them in the order they were resolved, the
\* history file newest first.
PersistedDecision(decision_id, agent_id) ==
    [ decision_id |-> decision_id,
      agent_id |-> agent_id,
      decision_type |-> "allocation",
      decision_data |-> [ budget |-> 150000 ],
      description |-> "review",
      created_at |-> isoformat(0),
      status |-> APPROVED,
      user_id |-> "default_user",
      timeout_seconds |-> 1,
      resolved_at |-> Some(isoformat(0)),
      resolution_reason |-> Some("Approved by user"),
      user_comments |-> None ]

PersistedStore(k, owners) ==
    [ decision_file |->
          [ i \in 1..k |-> PersistedDecision(i - k, owners[i]) ],
      history_file |->
          [ i \in 1..k |->
              PersistedDecision(1 - i, owners[k + 1 - i])
                  @@ ("timestamp" :> isoformat(0)) ] ]

InitLoaded ==
    /\ \E k \in 0..HistoryCap : \E owners \in [ 1..k -> AgentIds ] :
        /\ decision_file = IF k = 0 THEN None
                           ELSE Some(PersistedStore(k, owners).decision_file)
        /\ history_file = IF k = 0 THEN None
                          ELSE Some(PersistedStore(k, owners).history_file)
    /\ LET loaded == _load_data(decision_file, history_file)
       IN  /\ pending_decisions = loaded.pending_decisions
           /\ resolved_decisions = loaded.resolved_decisions
           /\ decision_history = loaded.decision_history
    /\ global_autonomous_mode = FALSE
    /\ agent_hitl_overrides = [ a \in AgentInstances |-> FALSE ]
    /\ timeout_tasks = {}
    /\ uuid = 0
    /\ now = 0
    /\ hitl_enabled = [ a \in AgentInstances |-> FALSE ]
    /\ autonomous_mode = [ a \in AgentInstances |-> TRUE ]
    /\ callback_arg = << >>
    /\ callback_calls = << >>
    /\ last_call = [ op |-> "init" ]
    /\ workflow = NoInvocation
    /\ lists = << >>
    /\ parked = NoInvocation
    /\ audit_log_file = << >>
    /\ csv_log_file = << >>

SpecLoaded == InitLoaded /\ [][Next]_vars

\* The coordinator with callers that also read it.  A read leaves its
\* return value in last_call.
Read_popping(op, argument, result) ==
    /\ last_call' = [ op |-> op, argument |-> argument, result |-> result ]
    /\ pending_decisions' = << >>
    /\ UNCHANGED << resolved_decisions, decision_history, policy, store,
                    timeout_tasks, uuid, now, agents, callback_arg,
                    callback_calls, graph >>

Read(op, argument, result) ==
    /\ last_call' = [ op |-> op, argument |-> argument, result |-> result ]
    /\ UNCHANGED << coordinator, policy, store, timeout_tasks, uuid, now,
                    agents, callback_arg, callback_calls, graph >>

OptionalAgentIds == { None } \cup { Some(agent_id) : agent_id \in AgentIds }

GetDecision == \E decision_id \in DecisionIds :
    Read("get_decision", decision_id, get_decision(decision_id))
GetPendingDecisions == \E agent_id \in OptionalAgentIds :
    Read("get_pending_decisions", agent_id, get_pending_decisions(agent_id))
GetDecisionHistory == \E agent_id \in OptionalAgentIds :
    Read("get_decision_history", agent_id,
         get_decision_history(agent_id, HistoryCap))

NextReads ==
    \/ SetGlobalAutonomousMode
    \/ SetAgentHitlOverride
    \/ CreateDecision({"ok"})
    \/ HandleTimeout({"ok"})
    \/ ApproveDecision({"ok"})
    \/ RejectDecision({"ok"})
    \/ Tick
    \/ GetDecision
    \/ GetPendingDecisions
    \/ GetDecisionHistory

SpecReads == Init /\ [][NextReads]_vars

\* ----------------------------------------------------------- workflow graphs
\* The StateGraph of HITLPortfolioOptimizerAgent (_create_hitl_graph) and the
\* one of PortfolioOptimizerReActAgent (_create_graph).  workflow.pc is the
\* node, or the routing function of a conditional edge, that runs next; a
\* reasoning_trace is a reference into `lists`, each of its entries the
\* headline of the text the node appends.  The numbers a portfolio is built
\* from (market data, random mock recommendations) are a choice from
\* Portfolios; risk_score is in tenths.
HitlAgent == "hitl_portfolio_optimizer"
ReactAgent == "portfolio_optimizer_react"
Budgets == {50000, 150000}
Portfolios ==
    { [ risk_score |-> 20, diversification_score |-> 60,
        expected_return |-> 10 ],
      [ risk_score |-> 20, diversification_score |-> 40,
        expected_return |-> 10 ] }

outside == << coordinator, policy, store, timeout_tasks, uuid, now, agents,
              callback_arg, callback_calls, last_call, parked, audit >>

PortfolioOptimizerState(budget, ref) ==
    [ agent_id |-> HitlAgent,
      pc |-> "analyze_inputs",
      passes |-> 0,
      budget |-> budget,
      reasoning_trace |-> [ ref |-> ref ],
      hitl_approval_required |-> FALSE,
      hitl_approval_status |-> "none",
      hitl_decision_id |-> None,
      final_portfolio |-> None,
      audit_log |-> << >>,
      result |-> None ]

AgentState(budget, ref) ==
    [ agent_id |-> ReactAgent,
      pc |-> "analyze_inputs",
      passes |-> 0,
      budget |-> budget,
      reasoning_trace |-> [ ref |-> ref ],
      hitl_approval_required |-> FALSE,
      hitl_approved |-> None,
      final_portfolio |-> None,
      audit_log |-> << >>,
      result |-> None ]

InFlight == workflow.pc \notin {"idle", "returned"}
IsHitlGraph == workflow.agent_id = HitlAgent

\* A node runs: it appends `entries` to the trace and returns `state`
RunNode(node, entries, state) ==
    /\ workflow.pc = node
    /\ lists' = [ lists EXCEPT ![workflow.reasoning_trace.ref] = @ \o entries ]
    /\ workflow' = state
    /\ UNCHANGED outside

\* The frame of a call of HITLPortfolioOptimizerAgent.optimize_portfolio: its
\* hitl_enabled and autonomous_mode arguments and its initial_state
Frame(budget, enabled, autonomous, ref) ==
    [ args |-> [ hitl_enabled |-> enabled, autonomous_mode |-> autonomous ] ]
        @@ PortfolioOptimizerState(budget, ref)

\* HITLPortfolioOptimizerAgent.optimize_portfolio up to graph.ainvoke
optimize_portfolio(budget, enabled, autonomous) ==
    /\ ~ InFlight
    /\ Len(lists) < MaxRuns
    /\ Len(audit_log_file) < MaxRuns
    /\ hitl_enabled' = [ hitl_enabled EXCEPT ![HitlAgent] = enabled ]
    /\ agent_hitl_overrides' =
           OverrideSet(agent_hitl_overrides, HitlAgent, enabled)
    /\ autonomous_mode' = [ autonomous_mode EXCEPT ![HitlAgent] = autonomous ]
    /\ lists' = Append(lists, << >>)
    /\ workflow' = Frame(budget, enabled, autonomous, Len(lists) + 1)
    /\ last_call' = [ op |-> "optimize_portfolio" ]
    /\ UNCHANGED << coordinator, global_autonomous_mode, store, timeout_tasks,
                    uuid, now, callback_arg, callback_calls, parked, audit >>

\* A second caller's task enters optimize_portfolio while the task of the
\* invocation in flight is suspended inside graph.ainvoke: the code is the
\* same, and the suspended invocation stays parked.
concurrent_optimize_portfolio(budget, enabled, autonomous) ==
    /\ InFlight
    /\ parked = NoInvocation
    /\ Len(lists) < MaxRuns
    /\ Len(audit_log_file) < MaxRuns
    /\ hitl_enabled' = [ hitl_enabled EXCEPT ![HitlAgent] = enabled ]
    /\ agent_hitl_overrides' =
           OverrideSet(agent_hitl_overrides, HitlAgent, enabled)
    /\ autonomous_mode' = [ autonomous_mode EXCEPT ![HitlAgent] = autonomous ]
    /\ lists' = Append(lists, << >>)
    /\ parked' = workflow
    /\ workflow' = Frame(budget, enabled, autonomous, Len(lists) + 1)
    /\ last_call' = [ op |-> "optimize_portfolio" ]
    /\ UNCHANGED << coordinator, global_autonomous_mode, store, timeout_tasks,
                    uuid, now, callback_arg, callback_calls, audit >>

\* The event loop switches between the two tasks at a step boundary
Yield ==
    /\ parked # NoInvocation
    /\ parked.pc # "returned"
    /\ workflow' = parked
    /\ parked' = workflow
    /\ UNCHANGED << coordinator, policy, store, timeout_tasks, uuid, now,
                    agents, callback_arg, callback_calls, last_call, lists,
                    audit >>

_analyze_inputs ==
    RunNode("analyze_inputs",
            IF IsHitlGraph THEN << "ANALYZE", "HITL STATUS" >>
                           ELSE << "ANALYZE" >>,
            [ workflow EXCEPT !.pc = "fetch_market_data" ])

_fetch_market_data_skipping ==
    RunNode("fetch_market_data", << "FETCH" >>,
            [ workflow EXCEPT !.pc = "generate_recommendations" ])

_fetch_market_data ==
    RunNode("fetch_market_data", << "FETCH" >>,
            [ workflow EXCEPT !.pc = "reason_about_strategy" ])

\* `passes` counts the runs of this node in the invocation; the graph has no
\* such counter, the guard only bounds the model.
_reason_about_strategy ==
    /\ workflow.pc = "reason_about_strategy"
    /\ workflow.passes < MaxPasses
    /\ RunNode("reason_about_strategy", << "REASON" >>,
               [ workflow EXCEPT !.pc = "generate_recommendations",
                                 !.passes = @ + 1 ])

_generate_recommendations ==
    RunNode("generate_recommendations", << "GENERATE" >>,
            [ workflow EXCEPT !.pc = "optimize_portfolio" ])

should_request_hitl(a, state) ==
    IF ~ hitl_enabled[a] \/ autonomous_mode[a]
    THEN FALSE
    ELSE LET portfolio == state.final_portfolio[1]
         IN  IF portfolio.risk_score > 25 THEN TRUE
             ELSE IF state.budget > 100000 THEN TRUE
             ELSE IF portfolio.diversification_score < 60 THEN TRUE
             ELSE IF portfolio.expected_return > 20 THEN TRUE
             ELSE FALSE

_optimize_portfolio(portfolio) ==
    LET base_state == [ workflow EXCEPT !.final_portfolio = Some(portfolio) ]
    IN  RunNode("optimize_portfolio", << "OPTIMIZE" >>,
                IF IsHitlGraph
                THEN [ base_state EXCEPT
                         !.hitl_approval_required =
                             should_request_hitl(HitlAgent, base_state),
                         !.pc = "_should_request_hitl_approval" ]
                ELSE [ base_state EXCEPT
                         !.pc = "_should_require_hitl_approval" ])

\* A conditional edge: the routing function's label, mapped to the next node
FollowEdge(edge, state, next) ==
    /\ workflow.pc = edge
    /\ workflow' = [ state EXCEPT !.pc = next ]
    /\ UNCHANGED << outside, lists >>

_should_request_hitl_approval(state) ==
    IF state.hitl_approval_required THEN "hitl_required" ELSE "no_hitl"

AfterOptimizePortfolio ==
    /\ workflow.pc = "_should_request_hitl_approval"
    /\ FollowEdge("_should_request_hitl_approval", workflow,
           CASE _should_request_hitl_approval(workflow) = "hitl_required"
                    -> "request_hitl_approval"
             [] _should_request_hitl_approval(workflow) = "no_hitl"
                    -> "finalize_portfolio")

_should_require_hitl_approval(state) ==
    LET portfolio == state.final_portfolio[1]
    IN  IF portfolio.risk_score > 25 \/ state.budget > 100000
           \/ portfolio.diversification_score < 60
        THEN "hitl_required"
        ELSE "no_hitl"

\* The routing function of the base graph also assigns
\* state['hitl_approval_required']; whether the engine keeps what a routing
\* function writes into the state it was handed is the engine's affair, so
\* both outcomes are allowed.
ReactAfterOptimizePortfolio ==
    /\ workflow.pc = "_should_require_hitl_approval"
    /\ \E kept \in BOOLEAN :
        LET label == _should_require_hitl_approval(workflow)
            state == IF kept
                     THEN [ workflow EXCEPT !.hitl_approval_required =
                                                (label = "hitl_required") ]
                     ELSE workflow
        IN  FollowEdge("_should_require_hitl_approval", state,
                CASE label = "hitl_required" -> "hitl_review"
                  [] label = "no_hitl" -> "finalize_portfolio")

\* The base graph's review node simulates the reviewer
_hitl_review ==
    /\ workflow.pc = "hitl_review"
    /\ LET portfolio == workflow.final_portfolio[1]
           min_return == IF portfolio.expected_return * 10 < 100
                         THEN portfolio.expected_return * 10 ELSE 100
           quality_x3 == portfolio.diversification_score
                         + (100 - portfolio.risk_score * 2) + min_return
       IN  RunNode("hitl_review", << "HITL" >>,
                   [ workflow EXCEPT !.hitl_approved = Some(quality_x3 > 210),
                                     !.pc = "_check_hitl_approval" ])

_check_hitl_approval(state) ==
    IF state.hitl_approved = Some(TRUE) THEN "approved"
    ELSE IF state.hitl_approved = Some(FALSE) THEN "rejected"
    ELSE "pending"

\* The node of the HITL graph that creates the decision.  The payload holds
\* state['reasoning_trace'] itself (line 167), the decision is created and
\* persisted by request_hitl_approval (line 178), and the node then appends
\* to that same list (line 193).
_request_hitl_approval ==
    /\ workflow.pc = "request_hitl_approval"
    /\ request_hitl_approval(HitlAgent, "portfolio_approval",
           [ budget |-> workflow.budget,
             reasoning_trace |-> workflow.reasoning_trace ],
           "portfolio allocation", "default_user", None, "ok")
    /\ workflow' = [ workflow EXCEPT
                       !.hitl_decision_id = Some(last_call'.decision_id),
                       !.hitl_approval_status = last_call'.result,
                       !.pc = "wait_for_hitl_decision" ]
    /\ lists' = [ lists EXCEPT ![workflow.reasoning_trace.ref] =
                                   Append(@, "HITL: Requesting") ]
    /\ UNCHANGED << parked, audit >>

\* optimize_portfolio's `except Exception` turns what a node raises into the
\* value the invocation returns.
Raise(error) ==
    /\ workflow' = [ workflow EXCEPT
                       !.pc = "returned",
                       !.result = Some([ status |-> "error",
                                         error |-> error ]) ]
    /\ UNCHANGED << outside, lists >>

\* The module never binds the name hitl_manager (line 16 imports HITLStatus
\* and HITLDecision only), so the lookup of line 207 raises NameError.
_wait_for_hitl_decision ==
    /\ workflow.pc = "wait_for_hitl_decision"
    /\ IF workflow.hitl_decision_id = None
       THEN RunNode("wait_for_hitl_decision", << "HITL: Waiting" >>,
                    [ workflow EXCEPT !.hitl_approval_status = "error",
                                      !.pc = "_check_hitl_decision" ])
       ELSE Raise("name 'hitl_manager' is not defined")

_check_hitl_decision_default_approved(state) ==
    LET status == state.hitl_approval_status
    IN  IF status = REJECTED THEN "rejected"
        ELSE IF status = PENDING THEN "pending"
        ELSE "approved"

_check_hitl_decision(state) ==
    LET status == state.hitl_approval_status
    IN  IF status = APPROVED \/ status = BYPASSED THEN "approved"
        ELSE IF status = REJECTED THEN "rejected"
        ELSE "pending"

\* The label -> node mapping both graphs give their decision edge
DecisionEdge_capped(label) ==
    CASE label = "approved" -> "finalize_portfolio"
      [] label = "rejected" -> IF workflow.passes < MaxPasses
                               THEN "reason_about_strategy" ELSE "END"
      [] label = "pending" -> "END"

DecisionEdge(label) ==
    CASE label = "approved" -> "finalize_portfolio"
      [] label = "rejected" -> "reason_about_strategy"
      [] label = "pending" -> "END"

AfterWaitForHitlDecision ==
    /\ workflow.pc = "_check_hitl_decision"
    /\ FollowEdge("_check_hitl_decision", workflow,
                  DecisionEdge(_check_hitl_decision(workflow)))

AfterHitlReview ==
    /\ workflow.pc = "_check_hitl_approval"
    /\ FollowEdge("_check_hitl_approval", workflow,
                  DecisionEdge(_check_hitl_approval(workflow)))

_finalize_portfolio ==
    /\ workflow.pc = "finalize_portfolio"
    /\ RunNode("finalize_portfolio",
               IF IsHitlGraph /\ workflow.hitl_approval_required
               THEN << "FINALIZE", "HITL: finalized" >>
               ELSE << "FINALIZE" >>,
               [ workflow EXCEPT !.pc = "log_decision" ])

\* The audit entry of the base node, and what the HITL node adds to it
audit_entry(state) ==
    [ agent_id |-> ReactAgent,
      budget |-> state.budget,
      reasoning_trace |-> state.reasoning_trace,
      final_portfolio |-> state.final_portfolio,
      hitl_required |-> state.hitl_approval_required,
      hitl_approved |-> IF "hitl_approved" \in DOMAIN state
                        THEN state.hitl_approved ELSE None ]

hitl_audit_entry(state) ==
    [ agent_id |-> ReactAgent,
      budget |-> state.budget,
      reasoning_trace |-> state.reasoning_trace,
      final_portfolio |-> state.final_portfolio,
      hitl_required |-> state.hitl_approval_required,
      hitl_approved |-> None,
      hitl_enabled |-> hitl_enabled[HitlAgent],
      hitl_status |-> state.hitl_approval_status,
      hitl_decision_id |-> state.hitl_decision_id ]

\* _save_audit_log: the new contents of the JSON audit file.  json.dump
\* writes the contents the trace list has at that moment.
AuditLogCap == 1000

_save_audit_log(entry) ==
    LET audit_log == Append(audit_log_file,
                            [ entry EXCEPT !.reasoning_trace =
                                               [ items |-> lists[@.ref] ] ])
    IN  IF Len(audit_log) > AuditLogCap
        THEN SubSeq(audit_log, Len(audit_log) - AuditLogCap + 1, Len(audit_log))
        ELSE audit_log

\* _save_csv_log: the new contents of the CSV file
_save_csv_log(entry) ==
    Append(csv_log_file,
           [ budget |-> entry.budget,
             expected_return |-> entry.final_portfolio[1].expected_return,
             risk_score |-> entry.final_portfolio[1].risk_score,
             diversification_score |->
                 entry.final_portfolio[1].diversification_score,
             hitl_required |-> entry.hitl_required,
             hitl_approved |-> entry.hitl_approved ])

\* The base node saves its audit entry to both files and then stores it in
\* the state; the node of the HITL graph calls the base node first and adds
\* its keys to the stored entry afterwards.
_log_decision ==
    /\ workflow.pc = "log_decision"
    /\ audit_log_file' = _save_audit_log(audit_entry(workflow))
    /\ csv_log_file' = _save_csv_log(audit_entry(workflow))
    /\ lists' = [ lists EXCEPT ![workflow.reasoning_trace.ref] =
                                   Append(@, "LOG") ]
    /\ workflow' = [ workflow EXCEPT
                       !.audit_log =
                           IF IsHitlGraph /\ workflow.hitl_decision_id # None
                           THEN << hitl_audit_entry(workflow) >>
                           ELSE << audit_entry(workflow) >>,
                       !.pc = "END" ]
    /\ UNCHANGED << coordinator, policy, store, timeout_tasks, uuid, now,
                    agents, callback_arg, callback_calls, last_call, parked >>

\* graph.ainvoke returns the final state and optimize_portfolio builds its
\* result from it
Return ==
    /\ workflow.pc = "END"
    /\ workflow' = [ workflow EXCEPT
           !.pc = "returned",
           !.result = Some(
               IF IsHitlGraph
               THEN [ status |-> "success",
                      portfolio |-> workflow.final_portfolio,
                      reasoning_trace |-> workflow.reasoning_trace,
                      hitl_required |-> workflow.hitl_approval_required,
                      hitl_status |-> workflow.hitl_approval_status,
                      hitl_decision_id |-> workflow.hitl_decision_id,
                      audit_log |-> workflow.audit_log ]
               ELSE [ status |-> "success",
                      portfolio |-> workflow.final_portfolio,
                      reasoning_trace |-> workflow.reasoning_trace,
                      hitl_required |-> workflow.hitl_approval_required,
                      hitl_approved |-> workflow.hitl_approved,
                      audit_log |-> workflow.audit_log ]) ]
    /\ UNCHANGED << outside, lists >>

OptimizePortfolio ==
    \E budget \in Budgets, enabled \in BOOLEAN, autonomous \in BOOLEAN :
        optimize_portfolio(budget, enabled, autonomous)
OptimizePortfolioNode == \E portfolio \in Portfolios :
    _optimize_portfolio(portfolio)

\* The HITL agent's process: invocations of its graph, the reviewer and the
\* timers acting on the coordinator, and restarts of the process.
NextWorkflow ==
    \/ OptimizePortfolio
    \/ _analyze_inputs
    \/ _fetch_market_data
    \/ _reason_about_strategy
    \/ _generate_recommendations
    \/ OptimizePortfolioNode
    \/ AfterOptimizePortfolio
    \/ _request_hitl_approval
    \/ _wait_for_hitl_decision
    \/ _finalize_portfolio
    \/ _log_decision
    \/ Return
    \/ SetGlobalAutonomousMode
    \/ HandleTimeout({"ok"})
    \/ ApproveDecision({"ok"})
    \/ RejectDecision({"ok"})
    \/ Tick
    \/ Restart

SpecWorkflow == Init /\ [][NextWorkflow]_vars

ConcurrentOptimizePortfolio ==
    \E budget \in Budgets, enabled \in BOOLEAN, autonomous \in BOOLEAN :
        concurrent_optimize_portfolio(budget, enabled, autonomous)

\* Two callers of the same agent instance on one event loop
NextConcurrent ==
    \/ OptimizePortfolio
    \/ ConcurrentOptimizePortfolio
    \/ Yield
    \/ _analyze_inputs
    \/ _fetch_market_data
    \/ _reason_about_strategy
    \/ _generate_recommendations
    \/ OptimizePortfolioNode
    \/ AfterOptimizePortfolio
    \/ _request_hitl_approval
    \/ _wait_for_hitl_decision
    \/ _finalize_portfolio
    \/ _log_decision
    \/ Return

SpecConcurrent == Init /\ [][NextConcurrent]_vars

\* PortfolioOptimizerReActAgent.optimize_portfolio up to graph.ainvoke; the
\* hitl_enabled argument is not used.
react_optimize_portfolio(budget, enabled) ==
    /\ ~ InFlight
    /\ Len(lists) < MaxRuns
    /\ Len(audit_log_file) < MaxRuns
    /\ lists' = Append(lists, << >>)
    /\ workflow' = AgentState(budget, Len(lists) + 1)
    /\ last_call' = [ op |-> "optimize_portfolio" ]
    /\ UNCHANGED << coordinator, policy, store, timeout_tasks, uuid, now,
                    agents, callback_arg, callback_calls, parked, audit >>

ReactOptimizePortfolio == \E budget \in Budgets, enabled \in BOOLEAN :
    react_optimize_portfolio(budget, enabled)

\* The base agent's process: invocations of its graph, one after the other
NextReact ==
    \/ ReactOptimizePortfolio
    \/ _analyze_inputs
    \/ _fetch_market_data
    \/ _reason_about_strategy
    \/ _generate_recommendations
    \/ OptimizePortfolioNode
    \/ ReactAfterOptimizePortfolio
    \/ _hitl_review
    \/ AfterHitlReview
    \/ _finalize_portfolio
    \/ _log_decision
    \/ Return

SpecReact == Init /\ [][NextReact]_vars

\* The decision edges applied to every state they can be handed.  For the
\* HITL graph that is the state wait_for_hitl_decision returns, with each
\* status the node can store, for the decision the agent requested with
\* oversight on; for the base graph it is an invocation from its first node,
\* whose review node stores the verdict.
ObservedStatuses == HITLStatus \cup {"error"}

InitRouting ==
    /\ pending_decisions = << >>
    /\ resolved_decisions = << >>
    /\ decision_history = << >>
    /\ global_autonomous_mode = FALSE
    /\ agent_hitl_overrides = [ a \in AgentInstances |-> TRUE ]
    /\ decision_file = None
    /\ history_file = None
    /\ timeout_tasks = {}
    /\ uuid = 0
    /\ now = 0
    /\ hitl_enabled = [ a \in AgentInstances |-> TRUE ]
    /\ autonomous_mode = [ a \in AgentInstances |-> FALSE ]
    /\ callback_arg = << >>
    /\ callback_calls = << >>
    /\ last_call = [ op |-> "init" ]
    /\ parked = NoInvocation
    /\ audit_log_file = << >>
    /\ csv_log_file = << >>
    /\ \E budget \in Budgets :
        \/ /\ workflow = AgentState(budget, 1)
           /\ lists = << << >> >>
        \/ \E status \in ObservedStatuses, portfolio \in Portfolios :
            /\ workflow = [ PortfolioOptimizerState(budget, 1) EXCEPT
                              !.pc = "_check_hitl_decision",
                              !.passes = 1,
                              !.final_portfolio = Some(portfolio),
                              !.hitl_approval_required = TRUE,
                              !.hitl_approval_status = status,
                              !.hitl_decision_id = Some(0) ]
            /\ lists = << << "ANALYZE", "HITL STATUS", "FETCH", "REASON",
                             "GENERATE", "OPTIMIZE", "HITL: Requesting",
                             "HITL: Waiting" >> >>

NextRouting ==
    \/ _analyze_inputs
    \/ _fetch_market_data
    \/ _reason_about_strategy
    \/ _generate_recommendations
    \/ OptimizePortfolioNode
    \/ AfterOptimizePortfolio
    \/ ReactAfterOptimizePortfolio
    \/ _request_hitl_approval
    \/ _wait_for_hitl_decision
    \/ AfterWaitForHitlDecision
    \/ _hitl_review
    \/ AfterHitlReview
    \/ _finalize_portfolio
    \/ _log_decision
    \/ Return

SpecRouting == InitRouting /\ [][NextRouting]_vars

\* ------------------------------------------------------------------ claims
Created == 1..uuid
StatusOf(decision_id) ==
    IF get_decision(decision_id) = None
    THEN "absent"
    ELSE get_decision(decision_id)[1].status
ResolvedAtOf(decision_id) ==
    IF get_decision(decision_id) = None
    THEN None
    ELSE get_decision(decision_id)[1].resolved_at
HistoryEntries(decision_id) ==
    { i \in 1..Len(decision_history) :
        decision_history[i].decision_id = decision_id }

\* C1: the status of a decision changes only at creation (to pending or
\* bypassed) and from pending to approved, rejected or timeout; approved,
\* rejected, timeout and bypassed are never left.
C1_StatusTransitions ==
    [][ \A decision_id \in DecisionIds :
          StatusOf(decision_id)' # StatusOf(decision_id) =>
            \/ /\ StatusOf(decision_id) = "absent"
               /\ StatusOf(decision_id)' \in {PENDING, BYPASSED}
            \/ /\ StatusOf(decision_id) = PENDING
               /\ StatusOf(decision_id)' \in {APPROVED, REJECTED, TIMEOUT}
      ]_vars

C1_Witness ==
    /\ StatusOf(1) = TIMEOUT
    /\ global_autonomous_mode
    /\ last_call = [ op |-> "reject_decision", result |-> FALSE, io |-> "ok" ]

TimerFires(task) == timeout_tasks' = timeout_tasks \ {task}

\* C2: when the timeout task of a decision that was approved or rejected
\* wakes up, nothing of the coordinator or of the store changes, and no
\* decision ever has two history entries.
C2_TimeoutRace ==
    [][ /\ \A task \in timeout_tasks :
             ( /\ TimerFires(task)
               /\ StatusOf(task.decision_id) \in {APPROVED, REJECTED} )
             => UNCHANGED << coordinator, store, callback_calls >>
        /\ \A decision_id \in DecisionIds :
             Cardinality(HistoryEntries(decision_id))' <= 1
      ]_vars

C2_Witness ==
    /\ StatusOf(1) = APPROVED
    /\ ResolvedAtOf(1) = Some(isoformat(0))
    /\ now = 1
    /\ last_call = [ op |-> "_handle_timeout", result |-> FALSE, io |-> "ok" ]

ResolutionCall(decision_id, status) ==
    /\ last_call'.result = DictHas(pending_decisions, decision_id)
    /\ last_call'.result = FALSE =>
           UNCHANGED << coordinator, store, callback_calls >>
    /\ last_call'.result = TRUE =>
           /\ StatusOf(decision_id)' = status
           /\ ~ DictHas(pending_decisions', decision_id)
           /\ DictHas(resolved_decisions', decision_id)

\* C3: approve_decision and reject_decision return True exactly when the id
\* is in the pending index, and then the decision is moved to the resolved
\* index with the new status; when they return False the indices, the history
\* and the store are unchanged.
C3_ResolveOnlyPending ==
    [][ \A decision_id \in DecisionIds, user_comments \in UserComments :
          /\ approve_decision(decision_id, user_comments, "ok")
                => ResolutionCall(decision_id, APPROVED)
          /\ reject_decision(decision_id, user_comments, "ok")
                => ResolutionCall(decision_id, REJECTED)
      ]_vars

C3_Witness ==
    /\ StatusOf(1) = APPROVED
    /\ last_call = [ op |-> "reject_decision", result |-> FALSE, io |-> "ok" ]

JustCreated == last_call.op \in {"create_decision", "request_hitl_approval"}

\* C4: create_decision returns a pending decision exactly when global
\* autonomous mode is off and the override of the owner is True; otherwise the
\* decision is bypassed, has resolved_at set to its creation time, is in the
\* resolved index and is the newest history entry.
C4_PolicyAtCreation ==
    JustCreated =>
        LET decision_id == last_call.decision_id
            decision == DictGet(AllDecisions, decision_id)
            owner == decision.agent_id
            review == /\ ~ global_autonomous_mode
                      /\ owner \in DOMAIN agent_hitl_overrides
                      /\ agent_hitl_overrides[owner] = TRUE
        IN  /\ DictHas(AllDecisions, decision_id)
            /\ last_call.result = PENDING <=> review
            /\ last_call.result = BYPASSED <=> ~ review
            /\ review =>
                 /\ decision.status = PENDING
                 /\ DictHas(pending_decisions, decision_id)
            /\ ~ review =>
                 /\ decision.status = BYPASSED
                 /\ decision.resolved_at = Some(decision.created_at)
                 /\ DictHas(resolved_decisions, decision_id)
                 /\ ~ DictHas(pending_decisions, decision_id)
                 /\ Len(decision_history) >= 1
                 /\ decision_history[1].decision_id = decision_id
                 /\ decision_history[1].status = BYPASSED

C4_Witness ==
    /\ last_call.op = "create_decision"
    /\ last_call.result = BYPASSED
    /\ global_autonomous_mode
    /\ DictGet(AllDecisions, last_call.decision_id).agent_id
           = "hitl_portfolio_optimizer"
    /\ agent_hitl_overrides["hitl_portfolio_optimizer"] = TRUE

TimedOut(decision_id) ==
    /\ get_decision(decision_id) # None
    /\ get_decision(decision_id)[1].status = TIMEOUT
    /\ get_decision(decision_id)[1].resolved_at # None
    /\ DictHas(resolved_decisions, decision_id)
    /\ ~ DictHas(pending_decisions, decision_id)

\* C5: under a running event loop every pending decision is eventually
\* approved, rejected or timed out; one that times out is from then on in
\* the resolved index with status timeout and resolved_at set, and the step
\* that times it out puts its entry at the head of the history.
C5_TimeoutEventually ==
    /\ \A decision_id \in DecisionIds :
         (StatusOf(decision_id) = PENDING) ~>
            ( \/ [] TimedOut(decision_id)
              \/ StatusOf(decision_id) \in {APPROVED, REJECTED} )
    /\ [][ \A decision_id \in DecisionIds :
             ( StatusOf(decision_id) = PENDING /\ TimedOut(decision_id)' )
             => /\ decision_history'[1].decision_id = decision_id
                /\ decision_history'[1].status = TIMEOUT
                /\ decision_history'[1].resolved_at = Some(isoformat(now))
         ]_vars

C5_Witness ==
    /\ TimedOut(1)
    /\ ResolvedAtOf(1) = Some(isoformat(1))
    /\ last_call = [ op |-> "_handle_timeout", result |-> TRUE, io |-> "ok" ]

\* C6: resolved_at is None exactly while a decision is pending, it is set in
\* the step that takes the decision out of pending (or creates it bypassed),
\* and once set it never changes.
C6_ResolvedAtOnce ==
    [][ \A decision_id \in DecisionIds :
          /\ StatusOf(decision_id)' # "absent" =>
               ( StatusOf(decision_id)' = PENDING
                   <=> ResolvedAtOf(decision_id)' = None )
          /\ ResolvedAtOf(decision_id) # None =>
               ResolvedAtOf(decision_id)' = ResolvedAtOf(decision_id)
          /\ ( ResolvedAtOf(decision_id) = None
               /\ ResolvedAtOf(decision_id)' # None ) =>
               ResolvedAtOf(decision_id)' = Some(isoformat(now))
      ]_vars

C6_Witness ==
    /\ StatusOf(1) = REJECTED
    /\ ResolvedAtOf(1) = Some(isoformat(0))
    /\ now = 1
    /\ last_call = [ op |-> "approve_decision", result |-> FALSE, io |-> "ok" ]

\* C7: no timeout task is asleep for a decision that was approved or rejected.
C7_TimeoutCancelled ==
    \A task \in timeout_tasks :
        StatusOf(task.decision_id) \notin {APPROVED, REJECTED}

CallbackCalls(decision_id) ==
    { i \in 1..Len(callback_calls) :
        callback_calls[i].decision_id = decision_id }

\* C8: a decision that was requested with a callback and has left pending
\* through approve, reject or timeout has had its callback invoked once.
C8_CallbackOnce ==
    \A decision_id \in Created :
        ( /\ callback_arg[decision_id] # None
          /\ StatusOf(decision_id) \in {APPROVED, REJECTED, TIMEOUT} )
        => Cardinality(CallbackCalls(decision_id)) = 1

InIndex(d, decision_id) ==
    Cardinality({ i \in 1..Len(d) : d[i].decision_id = decision_id })

\* C9: every decision created is in exactly one of the two indices, in the
\* pending one exactly when its status is pending, and no step removes a
\* decision from the resolved index or from the coordinator.
C9_OneIndex ==
    [][ /\ \A decision_id \in DecisionIds :
             /\ decision_id \in Created' =>
                  /\ InIndex(pending_decisions, decision_id)'
                       + InIndex(resolved_decisions, decision_id)' = 1
                  /\ InIndex(pending_decisions, decision_id)' = 1
                       <=> StatusOf(decision_id)' = PENDING
             /\ decision_id \notin Created' =>
                  InIndex(AllDecisions, decision_id)' = 0
        /\ DictKeys(resolved_decisions) \subseteq DictKeys(resolved_decisions')
        /\ DictKeys(AllDecisions) \subseteq DictKeys(AllDecisions')
      ]_vars

C9_Witness ==
    /\ DictKeys(pending_decisions) = {}
    /\ DictKeys(resolved_decisions) = {1}
    /\ StatusOf(1) = REJECTED
    /\ last_call = [ op |-> "reject_decision", result |-> TRUE, io |-> "ok" ]

Mutated ==
    \/ JustCreated
    \/ /\ last_call.op \in {"approve_decision", "reject_decision",
                            "_handle_timeout"}
       /\ last_call.result = TRUE

\* C10: after a call that changed the coordinator and whose writes did not
\* fail, the decision file holds exactly the decisions of the two indices
\* and the history file holds exactly the history.
C10_StoreMirrorsMemory ==
    ( Mutated /\ last_call.io = "ok" ) =>
        /\ decision_file # None
        /\ Len(decision_file[1]) = Len(AllDecisions)
        /\ { decision_file[1][i] : i \in 1..Len(decision_file[1]) }
             = { to_dict(AllDecisions[i]) : i \in 1..Len(AllDecisions) }
        /\ history_file = Some(decision_history)

C10_Witness ==
    /\ last_call = [ op |-> "approve_decision", result |-> TRUE, io |-> "ok" ]
    /\ decision_file # None
    /\ Len(decision_file[1]) = 1
    /\ decision_file[1][1].status = APPROVED
    /\ history_file = Some(decision_history)
    /\ Len(decision_history) = 1

Reloaded(decision_file_data, history_file_data) ==
    _load_data(decision_file_data, history_file_data)
InMemory ==
    [ pending_decisions |-> pending_decisions,
      resolved_decisions |-> resolved_decisions,
      decision_history |-> decision_history ]

\* C11: when the process stops inside a mutating call, a coordinator
\* constructed over the two files holds either the indices and history from
\* before the call or those the call was producing; and every decision a
\* restart loads into the resolved index has its history entry, unless the
\* history is at its cap.
C11_CrashAtomic ==
    [][ /\ ( ~ Crashed /\ Crashed' ) =>
              \/ Reloaded(decision_file', history_file') = InMemory
              \/ Reloaded(decision_file', history_file') = InMemory'
        /\ Restart =>
              \A i \in 1..Len(resolved_decisions') :
                  \/ \E j \in 1..Len(decision_history') :
                         decision_history'[j].decision_id
                             = resolved_decisions'[i].decision_id
                  \/ Len(decision_history') >= HistoryCap
      ]_vars

FailedWrites == IoOutcomes \ {"ok"}

\* What a call that resolves a decision returns and leaves in memory
ResolvedInMemory(decision_id, status) ==
    /\ ResolutionCall(decision_id, status)
    /\ last_call'.result = TRUE =>
           /\ ResolvedAtOf(decision_id)' = Some(isoformat(now))
           /\ get_pending_decisions(None)'
                = [ i \in 1..Len(pending_decisions') |->
                      to_dict(pending_decisions'[i]) ]
           /\ \A i \in 1..Len(get_pending_decisions(None)') :
                  get_pending_decisions(None)'[i].decision_id # decision_id
           /\ get_decision_history(None, 1)'[1].decision_id = decision_id
           /\ get_decision_history(None, 1)'[1].status = status

\* What create_decision returns and leaves in memory
CreatedInMemory(agent_id) ==
    \E decision_id \in DecisionIds, status \in {PENDING, BYPASSED} :
        /\ decision_id = uuid + 1
        /\ status = PENDING <=> is_hitl_required(agent_id)
        /\ last_call'.result = status
        /\ last_call'.decision_id = decision_id
        /\ StatusOf(decision_id)' = status
        /\ status = PENDING =>
               /\ DictHas(pending_decisions', decision_id)
               /\ \E task \in timeout_tasks' : task.decision_id = decision_id
               /\ \E i \in 1..Len(get_pending_decisions(Some(agent_id))') :
                      get_pending_decisions(Some(agent_id))'[i].decision_id
                          = decision_id
        /\ status = BYPASSED =>
               /\ DictHas(resolved_decisions', decision_id)
               /\ ResolvedAtOf(decision_id)' = Some(isoformat(now))
               /\ get_decision_history(Some(agent_id), 1)'[1].decision_id
                      = decision_id

\* C12: a call whose write of the decision file or of the history file fails
\* returns what it returns when the write succeeds and makes the same change
\* to the indices and the history, and get_decision, get_pending_decisions
\* and get_decision_history answer from that in-memory state.
C12_WriteFailure ==
    [][ \A io \in FailedWrites :
          /\ \A decision_id \in DecisionIds, user_comments \in UserComments :
                /\ approve_decision(decision_id, user_comments, io)
                      => ResolvedInMemory(decision_id, APPROVED)
                /\ reject_decision(decision_id, user_comments, io)
                      => ResolvedInMemory(decision_id, REJECTED)
          /\ \A task \in timeout_tasks :
                _handle_timeout(task, io)
                    => ResolvedInMemory(task.decision_id, TIMEOUT)
          /\ \A agent_id \in AgentIds :
                ( \E decision_type \in DecisionTypes,
                     decision_data \in DecisionData,
                     description \in Descriptions, user_id \in UserIds,
                     timeout_seconds \in TimeoutValues :
                      create_decision(agent_id, decision_type, decision_data,
                                      description, user_id, timeout_seconds,
                                      io) )
                => CreatedInMemory(agent_id)
      ]_vars

C12_Witness ==
    /\ last_call = [ op |-> "approve_decision", result |-> TRUE,
                     io |-> "decision_file_error" ]
    /\ StatusOf(1) = APPROVED
    /\ decision_file # None
    /\ decision_file[1][1].status = PENDING
    /\ get_pending_decisions(None) = << >>
    /\ get_decision_history(None, 1)[1].status = APPROVED

\* What a caller reads, as JSON: a payload that holds a list is read with the
\* list's contents
ReadDecision(decision_id) ==
    IF get_decision(decision_id) = None
    THEN None
    ELSE Some(json_dump(get_decision(decision_id)[1]))
ReadPending ==
    [ i \in 1..Len(get_pending_decisions(None)) |->
        json_dump(get_pending_decisions(None)[i]) ]
ReadHistory ==
    [ i \in 1..Len(get_decision_history(None, HistoryCap)) |->
        json_dump(get_decision_history(None, HistoryCap)[i]) ]
PersistedIds ==
    IF decision_file = None THEN {} ELSE DictKeys(decision_file[1])

\* C13: a coordinator constructed over the store of the previous process
\* holds every persisted decision, the pending ones in the pending index and
\* the others in the resolved index, and get_decision, get_pending_decisions
\* and get_decision_history return what they returned before the restart.
C13_RestartRoundTrip ==
    [][ Restart =>
          /\ DictKeys(pending_decisions') \cup DictKeys(resolved_decisions')
               = PersistedIds
          /\ \A i \in 1..Len(pending_decisions') :
                 pending_decisions'[i].status = PENDING
          /\ \A i \in 1..Len(resolved_decisions') :
                 resolved_decisions'[i].status # PENDING
          /\ \A decision_id \in DecisionIds :
                 ReadDecision(decision_id)' = ReadDecision(decision_id)
          /\ ReadPending' = ReadPending
          /\ ReadHistory' = ReadHistory
      ]_vars

\* C14: the history never has more than HistoryCap entries; a step that adds
\* an entry keeps the earlier entries in their order behind it and, at the
\* cap, drops the oldest one; and every decision that had a history entry,
\* the evicted one included, is still returned by get_decision.
C14_HistoryCap ==
    [][ /\ Len(decision_history) <= HistoryCap
        /\ Len(decision_history') <= HistoryCap
        /\ decision_history' # decision_history =>
             /\ Len(decision_history') =
                    IF Len(decision_history) < HistoryCap
                    THEN Len(decision_history) + 1 ELSE HistoryCap
             /\ Tail(decision_history') =
                    SubSeq(decision_history, 1, Len(decision_history') - 1)
             /\ \A i \in 1..Len(decision_history) :
                    get_decision(decision_history[i].decision_id)' # None
      ]_vars

C14_Witness ==
    /\ Len(decision_history) = HistoryCap
    /\ decision_history[1].decision_id = 1
    /\ \A i \in 2..HistoryCap :
           decision_history[i].decision_id = 2 - i
    /\ get_decision(1 - HistoryCap) # None
    /\ get_decision(1 - HistoryCap)[1].status = APPROVED

Terminal == {APPROVED, REJECTED, TIMEOUT, BYPASSED}
Limits == 1..(HistoryCap + 1)

\* C15: in the state a decision of owner o becomes terminal in,
\* get_decision_history(o, limit) has for every limit >= 1 an entry for it
\* with its status and resolved_at; and get_decision_history(o, limit) always
\* has at most `limit` entries, all of owner o, newest first, none of them
\* for a decision that is pending.
C15_HistoryOfOwner ==
    [][ /\ \A decision_id \in DecisionIds, o \in AgentIds, limit \in Limits :
             ( /\ StatusOf(decision_id) \notin Terminal
               /\ StatusOf(decision_id)' \in Terminal
               /\ get_decision(decision_id)'[1].agent_id = o )
             => \E i \in 1..Len(get_decision_history(Some(o), limit)') :
                  LET entry == get_decision_history(Some(o), limit)'[i]
                  IN  /\ entry.decision_id = decision_id
                      /\ entry.status = StatusOf(decision_id)'
                      /\ entry.resolved_at = ResolvedAtOf(decision_id)'
                      /\ entry.resolved_at = Some(isoformat(now))
        /\ \A o \in AgentIds, limit \in Limits :
             /\ Len(get_decision_history(Some(o), limit)') <= limit
             /\ \A i \in 1..Len(get_decision_history(Some(o), limit)') :
                  LET entry == get_decision_history(Some(o), limit)'[i]
                  IN  /\ entry.agent_id = o
                      /\ entry.status \in Terminal
                      /\ ~ DictHas(pending_decisions', entry.decision_id)
                      /\ i > 1 =>
                           get_decision_history(Some(o), limit)'[i - 1]
                               .timestamp.iso >= entry.timestamp.iso
      ]_vars

C15_Witness ==
    /\ last_call = [ op |-> "_handle_timeout", result |-> TRUE, io |-> "ok" ]
    /\ Len(decision_history) = 2
    /\ decision_history[2].agent_id = "external"
    /\ get_decision_history(Some("hitl_portfolio_optimizer"), 2)
           = << decision_history[1] >>
    /\ decision_history[1].decision_id = 1
    /\ decision_history[1].status = TIMEOUT
    /\ decision_history[1].resolved_at = Some(isoformat(1))

ReadStep == GetDecision \/ GetPendingDecisions \/ GetDecisionHistory

\* C16: get_decision, get_pending_decisions and get_decision_history change
\* neither the indices, the history, the policy nor the two files, and
\* return what the indices hold; a get_decision call that follows a read of
\* the same id, with nothing but reads in between, returns the same snapshot.
C16_PureReads ==
    [][ /\ ReadStep =>
             /\ UNCHANGED << coordinator, policy, store, timeout_tasks >>
             /\ \A decision_id \in DecisionIds :
                    get_decision(decision_id)' = get_decision(decision_id)
        /\ \A decision_id \in DecisionIds :
             ( /\ last_call.op = "get_decision"
               /\ last_call.argument = decision_id
               /\ last_call'.op = "get_decision"
               /\ last_call'.argument = decision_id
               /\ ReadStep )
             => /\ last_call'.result = last_call.result
                /\ last_call'.result = get_decision(decision_id)'
      ]_vars

C16_Witness ==
    /\ last_call.op = "get_decision"
    /\ last_call.argument = 1
    /\ last_call.result # None
    /\ last_call.result[1].status = PENDING
    /\ DictHas(pending_decisions, 1)
    /\ decision_file # None
    /\ decision_file[1][1].status = PENDING

\* C17: set_global_autonomous_mode and set_agent_hitl_override change the
\* policy and nothing else, so every decision keeps its status, resolved_at
\* and index; and a pending decision stops being pending only in a step of
\* approve_decision, reject_decision or its timeout task, whatever the policy
\* has become.
C17_PolicyAtCreationOnly ==
    [][ /\ ( SetGlobalAutonomousMode \/ SetAgentHitlOverride ) =>
             /\ UNCHANGED << coordinator, store, timeout_tasks, uuid,
                             callback_calls >>
             /\ \A decision_id \in DecisionIds :
                    /\ StatusOf(decision_id)' = StatusOf(decision_id)
                    /\ ResolvedAtOf(decision_id)' = ResolvedAtOf(decision_id)
        /\ \A decision_id \in DecisionIds :
             ( /\ StatusOf(decision_id) = PENDING
               /\ StatusOf(decision_id)' # PENDING )
             => \/ /\ last_call'.op = "approve_decision"
                   /\ StatusOf(decision_id)' = APPROVED
                \/ /\ last_call'.op = "reject_decision"
                   /\ StatusOf(decision_id)' = REJECTED
                \/ /\ last_call'.op = "_handle_timeout"
                   /\ StatusOf(decision_id)' = TIMEOUT
      ]_vars

C17_Witness ==
    /\ last_call.op = "set_global_autonomous_mode"
    /\ global_autonomous_mode
    /\ StatusOf(1) = PENDING
    /\ DictHas(pending_decisions, 1)
    /\ ResolvedAtOf(1) = None
    /\ now = 1

\* What the decision edge observes: the status the wait node stored or, in
\* the base graph, the reviewer's verdict
Observed ==
    IF IsHitlGraph
    THEN workflow.hitl_approval_status
    ELSE CASE workflow.hitl_approved = Some(TRUE) -> APPROVED
           [] workflow.hitl_approved = Some(FALSE) -> REJECTED
           [] OTHER -> PENDING
AtGate == workflow.pc \in {"_should_request_hitl_approval",
                           "_should_require_hitl_approval"}
AtDecisionEdge == workflow.pc \in {"_check_hitl_decision",
                                   "_check_hitl_approval"}
GateLabel ==
    IF IsHitlGraph THEN _should_request_hitl_approval(workflow)
                   ELSE _should_require_hitl_approval(workflow)
Enters(node) == workflow.pc # node /\ workflow'.pc = node

\* C18: the finalize step is entered only from the gate when its predicate
\* is false, or from the decision edge when the observed status is approved
\* or bypassed, and the audit step only after the finalize step.  From the
\* decision edge a rejected status leads to reason_about_strategy, and a
\* pending one ends the invocation: the only step left to it returns the
\* result, with no audit record.
C18_GateSafety ==
    [][ /\ Enters("finalize_portfolio") =>
             \/ AtGate /\ GateLabel = "no_hitl"
             \/ AtDecisionEdge /\ Observed \in {APPROVED, BYPASSED}
        /\ Enters("log_decision") => workflow.pc = "finalize_portfolio"
        /\ ( AtDecisionEdge /\ workflow'.pc # workflow.pc ) =>
             /\ Observed \in {APPROVED, BYPASSED} =>
                    workflow'.pc = "finalize_portfolio"
             /\ Observed = REJECTED =>
                    workflow'.pc = "reason_about_strategy"
             /\ Observed = PENDING =>
                    /\ workflow'.pc = "END"
                    /\ workflow'.audit_log = << >>
        /\ ( workflow.pc = "END" /\ workflow'.pc \notin {"END", "idle"} ) =>
             /\ workflow'.pc = "returned"
             /\ workflow'.audit_log = workflow.audit_log
      ]_vars

C18_Witness ==
    /\ workflow.pc = "returned"
    /\ IsHitlGraph
    /\ workflow.hitl_approval_status = PENDING
    /\ workflow.result # None
    /\ workflow.result[1].status = "success"
    /\ workflow.result[1].audit_log = << >>
    /\ lists[1][Len(lists[1])] = "HITL: Waiting"

C20_Suspension ==
    [][ ( /\ InFlight
          /\ workflow'.pc = "returned"
          /\ workflow.hitl_approval_required
          /\ workflow.hitl_decision_id # None
          /\ StatusOf(workflow.hitl_decision_id[1]) = PENDING )
        => /\ workflow'.result # None
           /\ workflow'.result[1].status = "success"
           /\ workflow'.result[1].hitl_status = PENDING
           /\ workflow'.result[1].hitl_decision_id = workflow.hitl_decision_id
           /\ DictHas(pending_decisions', workflow.hitl_decision_id[1])
      ]_vars

\* The invocation that returned last had requested a decision that was
\* pending when it was requested
SuspendedOn(decision_id) ==
    /\ workflow.pc = "returned"
    /\ IsHitlGraph
    /\ workflow.hitl_decision_id = Some(decision_id)
    /\ workflow.hitl_approval_status = PENDING

\* C21: a call of the entry point made after an invocation was suspended on
\* a decision re-enters the graph at the decision edge (or at the node that
\* reads the decision for it) with the state and the decision id of the
\* suspended invocation: the steps before the gate are not run again and no
\* decision id is drawn.
C21_Resumption ==
    [][ \A decision_id \in DecisionIds :
          ( SuspendedOn(decision_id) /\ OptimizePortfolio )
          => /\ workflow'.pc \in {"wait_for_hitl_decision",
                                  "_check_hitl_decision"}
             /\ workflow'.hitl_decision_id = Some(decision_id)
             /\ workflow'.reasoning_trace = workflow.reasoning_trace
             /\ workflow'.final_portfolio = workflow.final_portfolio
             /\ lists' = lists
      ]_vars

\* The step in which the invocation in flight returns to its caller
Returns(status) ==
    /\ InFlight
    /\ workflow'.pc = "returned"
    /\ workflow'.result # None
    /\ workflow'.result[1].status = status

\* C22: an invocation whose step raises returns a result with status 'error'
\* and leaves the coordinator as it would be without that invocation: the
\* decision it requested is in neither index and has no history entry.
C22_FailureIsolation ==
    [][ /\ ( InFlight /\ workflow'.pc = "returned" ) =>
             Returns("success") \/ Returns("error")
        /\ \A decision_id \in DecisionIds :
             ( /\ Returns("error")
               /\ workflow.hitl_decision_id = Some(decision_id) )
             => /\ ~ DictHas(pending_decisions', decision_id)
                /\ ~ DictHas(resolved_decisions', decision_id)
                /\ HistoryEntries(decision_id)' = {}
      ]_vars

LoopedBack == workflow.passes > 1

\* The decision edge takes the loop-back for a rejected status on every
\* pass, and the invocation reaches its end only after the audit step or
\* from the decision edge on a status that is neither approved, bypassed nor
\* rejected.
NoIterationCap ==
    /\ ( AtDecisionEdge /\ Observed = REJECTED
         /\ workflow'.pc # workflow.pc ) =>
           /\ workflow'.pc = "reason_about_strategy"
           /\ workflow'.passes = workflow.passes
    /\ Enters("END") =>
           \/ workflow.pc = "log_decision"
           \/ /\ AtDecisionEdge
              /\ Observed \notin {APPROVED, BYPASSED, REJECTED}

TraceOf(steps) ==
    SelectSeq(lists[workflow.reasoning_trace.ref], LAMBDA e : e \in steps)
Times(step) == Len(TraceOf({step}))
DataSteps == {"ANALYZE", "FETCH", "REASON", "GENERATE", "OPTIMIZE"}

\* Each node is entered from the node its edge starts at
EdgeOrder ==
    /\ ( ~ InFlight /\ workflow'.pc \notin {"idle", "returned"} ) =>
           workflow'.pc = "analyze_inputs"
    /\ Enters("fetch_market_data") => workflow.pc = "analyze_inputs"
    /\ Enters("reason_about_strategy") =>
           \/ workflow.pc = "fetch_market_data"
           \/ AtDecisionEdge
    /\ Enters("generate_recommendations") =>
           workflow.pc = "reason_about_strategy"
    /\ Enters("optimize_portfolio") =>
           workflow.pc = "generate_recommendations"
    /\ ( ~ AtGate /\ AtGate' ) => workflow.pc = "optimize_portfolio"
    /\ Enters("log_decision") => workflow.pc = "finalize_portfolio"
    /\ Enters("END") => workflow.pc = "log_decision" \/ AtDecisionEdge

\* What the trace holds when the gate is evaluated and when the invocation
\* has returned
TraceOrder ==
    /\ AtGate =>
           LET done == TraceOf(DataSteps)
           IN  /\ Len(done) = 2 + 3 * workflow.passes
               /\ done[1] = "ANALYZE"
               /\ done[2] = "FETCH"
               /\ \A k \in 0..(workflow.passes - 1) :
                      /\ done[3 + 3 * k] = "REASON"
                      /\ done[4 + 3 * k] = "GENERATE"
                      /\ done[5 + 3 * k] = "OPTIMIZE"
    /\ ( workflow.pc = "returned" /\ workflow.result[1].status = "success" ) =>
           /\ TraceOf({"FINALIZE", "LOG"}) = << "FINALIZE", "LOG" >>
           /\ workflow.passes = 1 =>
                  /\ Times("ANALYZE") = 1
                  /\ Times("FETCH") = 1
                  /\ Times("REASON") = 1
                  /\ Times("OPTIMIZE") = 1

\* C24: the nodes of an invocation run in the order of the edges: analyze,
\* fetch, reason, generate and optimize have run, in that order, when the
\* gate is evaluated, finalize runs before the audit step, and an invocation
\* that returns 'success' without a loop-back has run analyze, fetch, reason
\* and optimize once each.
C24_StepOrder ==
    [][ EdgeOrder /\ TraceOrder' ]_vars

C24_Witness ==
    /\ workflow.pc = "returned"
    /\ workflow.agent_id = ReactAgent
    /\ workflow.result[1].status = "success"
    /\ workflow.passes = 1
    /\ workflow.hitl_approved = Some(TRUE)
    /\ lists[workflow.reasoning_trace.ref] =
           << "ANALYZE", "FETCH", "REASON", "GENERATE", "OPTIMIZE", "HITL",
              "FINALIZE", "LOG" >>


\* C25: an invocation of the base agent with a budget above 100000 takes the
\* hitl_required branch at the gate, and the result it returns has status
\* 'success' and hitl_required = TRUE.
C25_LargeBudget ==
    [][ ( InFlight /\ ~ IsHitlGraph /\ workflow.budget > 100000 ) =>
            /\ workflow.pc = "_should_require_hitl_approval" =>
                   /\ GateLabel = "hitl_required"
                   /\ workflow'.pc = "hitl_review"
            /\ workflow'.pc = "returned" =>
                   /\ workflow'.result[1].status = "success"
                   /\ workflow'.result[1].hitl_required = TRUE ]_vars


\* The step of the audit node, and the record it left in the JSON audit file
AuditStep == workflow.pc = "log_decision" /\ workflow'.pc = "END"
DurableRecord == audit_log_file'[Len(audit_log_file')]

OwnArgsGate ==
    workflow.args.hitl_enabled /\ ~ workflow.args.autonomous_mode

\* C27: the gate outcome of an invocation is the one its own arguments
\* determine, whatever another invocation of the same agent does in between:
\* no gate when it was started with HITL disabled or autonomous mode on, a
\* gate for a budget above 100000 when it was started with HITL enabled and
\* autonomous mode off, and then a PENDING decision while global autonomous
\* mode is off.
C27_InvocationIsolation ==
    [][ ( InFlight /\ IsHitlGraph /\ "args" \in DOMAIN workflow ) =>
          /\ ( workflow.pc = "optimize_portfolio"
               /\ workflow'.pc = "_should_request_hitl_approval" ) =>
                 /\ ~ OwnArgsGate => ~ workflow'.hitl_approval_required
                 /\ ( OwnArgsGate /\ workflow.budget > 100000 ) =>
                        workflow'.hitl_approval_required
          /\ ( workflow.pc = "request_hitl_approval"
               /\ workflow'.pc = "wait_for_hitl_decision"
               /\ OwnArgsGate /\ ~ global_autonomous_mode ) =>
                 workflow'.hitl_approval_status = PENDING ]_vars


\* C28: every decision in the pending index has an armed timeout task, also
\* after the process restarted and loaded the index from the store.
C28_TimeoutArmed ==
    \A decision_id \in DecisionIds :
        DictHas(pending_decisions, decision_id) =>
            \E task \in timeout_tasks : task.decision_id = decision_id


\* The step is a call of request_hitl_approval by agent `a`
Requests(a) ==
    /\ uuid' # uuid
    /\ last_call'.op = "request_hitl_approval"
    /\ DictGet(AllDecisions', last_call'.decision_id).agent_id = a

\* C29: request_hitl_approval returns a BYPASSED decision whenever the
\* agent's HITL is disabled or its autonomous mode is on, and a PENDING one
\* only when the agent's HITL is enabled, its autonomous mode is off and
\* global autonomous mode is off.
C29_AgentModeDecides ==
    [][ \A a \in AgentInstances : Requests(a) =>
          /\ ( ~ hitl_enabled[a] \/ autonomous_mode[a] ) =>
                 last_call'.result = BYPASSED
          /\ last_call'.result = PENDING =>
                 /\ hitl_enabled[a]
                 /\ ~ autonomous_mode[a]
                 /\ ~ global_autonomous_mode ]_vars


\* C30: the coordinator's override for an agent's id equals the hitl_enabled
\* flag of every instance that has that id, also after a second instance
\* with the same id was constructed.
C30_OverrideMirrorsFlag ==
    \A a \in DOMAIN hitl_enabled :
        /\ agent_id_of(a) \in DOMAIN agent_hitl_overrides
        /\ agent_hitl_overrides[agent_id_of(a)] = hitl_enabled[a]

====
